---- MODULE Spec2Model ----
(***************************************************************************)
(* Cross-Entropy Method of garage/np/algos/cem.py: the statistics          *)
(* estimators, the rollout evaluator _worker_rollout_policy run by the     *)
(* workers of the stateful pool, and the iteration loop of CEM.train.      *)
(*                                                                         *)
(* Numbers.  A real number is an exact rational [n |-> numerator,          *)
(* d |-> denominator > 0] in lowest terms; d = 0 is numpy's nan.  A        *)
(* non-negative real that is the square root of a rational (every standard *)
(* deviation of the program is one) is the record [sq |-> its square], so  *)
(* that np.sqrt and np.square are exact.  A score mean - stderr is the     *)
(* record [m |-> mean, q |-> stderr^2], the real number m - sqrt(q).       *)
(* Floating-point rounding is not modelled.                                *)
(***************************************************************************)
EXTENDS Integers, Sequences, FiniteSets, TLC

VARIABLES
    self,        \* the CEM object: the attributes set by CEM.__init__
    n_parallel,  \* number of workers of stateful_pool.singleton_pool
    pc,          \* position of CEM.train
    itr,         \* loop variable of CEM.train
    cur_mean,    \* local of CEM.train
    cur_std,     \* local of CEM.train
    n_best,      \* local of CEM.train
    args,        \* the argument bundle handed to run_collect
    threshold,   \* the threshold handed to run_collect
    policy,      \* parameter vector of self.policy (the live policy)
    best_inds,   \* local of CEM.train (0-based indices into infos)
    best_x,      \* local of CEM.train
    infos,       \* the batch returned by run_collect
    counter,     \* the pool's shared counter of increments
    incs,        \* history: per completed call, in completion order, its increment
                 \* (inc) and the counter when the call was started (started)
    g,           \* per worker: the worker's globals G (env, policy)
    task,        \* per worker: position and locals of its evaluator call
    events,      \* history: the update / install / save / terminate steps taken
    n_samples2,  \* second run of CEM.train: its n_samples
    run2,        \* second run of CEM.train: n_best, cur_mean, cur_std, policy, best_inds
    est_x,       \* input of a direct call of _get_stderr_lb_varyinglens
    est_out      \* its result

vars == << self, n_parallel, pc, itr, cur_mean, cur_std, n_best, args, threshold,
           policy, best_inds, best_x, infos, counter, incs, g, task, events,
           n_samples2, run2, est_x, est_out >>

trainVars == << pc, itr, cur_mean, cur_std, n_best, policy, best_inds, best_x, events >>
poolVars == << infos, counter, incs >>
run2Vars == << n_samples2, run2 >>
estVars == << est_x, est_out >>

----------------------------------------------------------------------------
(* Bounds of the model. *)

MaxItr == 3
MaxLen == 2

----------------------------------------------------------------------------
(* Exact arithmetic. *)

Abs(i) == IF i < 0 THEN -i ELSE i

Min(a, b) == IF a <= b THEN a ELSE b

Max(a, b) == IF a >= b THEN a ELSE b

RECURSIVE GCD(_, _)
GCD(a, b) == IF b = 0 THEN a ELSE GCD(b, a % b)

Rat(num, den) ==
    LET k == GCD(Abs(num), Abs(den))
        s == IF den < 0 THEN -1 ELSE 1
    IN  [n |-> s * (num \div k), d |-> s * (den \div k)]

R(i) == [n |-> i, d |-> 1]

NaN == [n |-> 0, d |-> 0]

IsNaN(a) == a.d = 0

RAdd(a, b) == Rat(a.n * b.d + b.n * a.d, a.d * b.d)

RSub(a, b) == Rat(a.n * b.d - b.n * a.d, a.d * b.d)

RMul(a, b) == Rat(a.n * b.n, a.d * b.d)

RDiv(a, b) == Rat(a.n * b.d, a.d * b.n)

RLt(a, b) == a.n * b.d < b.n * a.d

RLe(a, b) == a.n * b.d <= b.n * a.d

RMax(a, b) == IF RLt(a, b) THEN b ELSE a

\* Python's int(): truncation towards zero.
int(a) == IF a.n >= 0 THEN a.n \div a.d ELSE -((-a.n) \div a.d)

RECURSIVE RSum(_)
RSum(s) == IF s = << >> THEN R(0) ELSE RAdd(Head(s), RSum(Tail(s)))

RECURSIVE ISum(_)
ISum(s) == IF s = << >> THEN 0 ELSE Head(s) + ISum(Tail(s))

\* np.square and np.sqrt on the [sq |-> square] representation.
Square(s) == s.sq

Sqrt(q) == [sq |-> q]

\* The standard deviation given as the number i >= 0.
Std(i) == Sqrt(R(i * i))

\* The score m - sqrt(q).
Score(mean, stderr2) == [m |-> mean, q |-> stderr2]

\* a < b for the scores a = a.m - sqrt(a.q), b = b.m - sqrt(b.q), decided exactly:
\* with L = a.m - b.m and D = sqrt(a.q) - sqrt(b.q), a < b iff L < D.
SLt(a, b) ==
    LET L  == RSub(a.m, b.m)
        L2 == RMul(L, L)
        \* D^2 = a.q + b.q - 2 sqrt(a.q b.q); c = a.q + b.q - L^2, p = 4 a.q b.q
        c  == RSub(RAdd(a.q, b.q), L2)
        p  == RMul(R(4), RMul(a.q, b.q))
        c2 == RMul(c, c)
        Dpos == RLt(b.q, a.q)
        Dneg == RLt(a.q, b.q)
        Lneg == RLt(L, R(0))
    IN  IF Lneg
        THEN IF ~Dneg THEN TRUE
             \* both negative: L < D iff L^2 > D^2 iff 2 sqrt(a.q b.q) > c
             ELSE RLt(c, R(0)) \/ RLt(c2, p)
        ELSE IF ~Dpos THEN FALSE
             \* both non-negative, D > 0: L < D iff L^2 < D^2 iff 2 sqrt(a.q b.q) < c
             ELSE RLt(R(0), c) /\ RLt(p, c2)

SLe(a, b) == ~SLt(b, a)

----------------------------------------------------------------------------
(* The statistics estimators. *)

\* The elements of s that are not nan, in order.
RECURSIVE NotNaN(_)
NotNaN(s) ==
    IF s = << >> THEN << >>
    ELSE IF IsNaN(Head(s)) THEN NotNaN(Tail(s))
         ELSE << Head(s) >> \o NotNaN(Tail(s))

\* np.mean of a non-empty sequence of numbers.
mean(s) == RDiv(RSum(s), R(Len(s)))

\* The variance under np.std(s, ddof): sum |s - mean|^2 / (len - ddof).
var(s, ddof) ==
    LET mu == mean(s)
        dev == [i \in 1..Len(s) |-> RMul(RSub(s[i], mu), RSub(s[i], mu))]
    IN  RDiv(RSum(dev), R(Len(s) - ddof))

\* _get_stderr_lb on a list of scalars.
_get_stderr_lb(x) ==
    LET mu == mean(x)
        ddof == IF Len(x) > 1 THEN 1 ELSE 0
        \* (std / sqrt(len))^2
        stderr2 == RDiv(var(x, ddof), R(Len(x)))
    IN  Score(mu, stderr2)

\* itertools.zip_longest(*x, fillvalue=fill): one tuple per index of the longest
\* sequence, the shorter sequences padded with fill.
zip_longest(x, fill) ==
    LET longest == IF x = << >> THEN 0
                   ELSE CHOOSE l \in {Len(x[i]) : i \in 1..Len(x)} :
                            \A i \in 1..Len(x) : Len(x[i]) <= l
    IN  [t \in 1..longest |->
            [i \in 1..Len(x) |-> IF t <= Len(x[i]) THEN x[i][t] ELSE fill]]

\* Mutant of FillValue: the shorter sequences are padded with 0.
FillValueZero == R(0)

\* The fill value of _get_stderr_lb_varyinglens.
FillValue == NaN

\* One pass of the loop of _get_stderr_lb_varyinglens: (mu, std^2, n) of a tuple.
VaryingStep(temp_list) ==
    LET vals == NotNaN(temp_list)
        nans == Len(temp_list) - Len(vals)
        n == Len(temp_list) - nans
        ddof == IF n > 1 THEN 1 ELSE 0
    IN  [mu |-> mean(vals), std2 |-> var(vals, ddof), n |-> n]

\* The lists mus, stds, ns built by _get_stderr_lb_varyinglens.
VaryingStats(x) ==
    LET z == zip_longest(x, FillValue)
    IN  [t \in 1..Len(z) |-> VaryingStep(z[t])]

\* _get_stderr_lb_varyinglens: mus - stds / sqrt(ns).
_get_stderr_lb_varyinglens(x) ==
    LET st == VaryingStats(x)
    IN  [t \in 1..Len(st) |-> Score(st[t].mu, RDiv(st[t].std2, R(st[t].n)))]

\* garage.misc.special.discount_cumsum: returns[t] = rewards[t] + discount * returns[t+1].
RECURSIVE discount_cumsum(_, _)
discount_cumsum(rewards, discount) ==
    IF rewards = << >> THEN << >>
    ELSE LET rest == discount_cumsum(Tail(rewards), discount)
         IN  << IF rest = << >> THEN Head(rewards)
                ELSE RAdd(Head(rewards), RMul(discount, rest[1])) >> \o rest

----------------------------------------------------------------------------
(* The rollout evaluator _worker_rollout_policy, one call per task. *)

Workers == 1..n_parallel

\* The values a coordinate of standard_normal(k) * sample_std + cur_mean can take:
\* the mean itself when the std is 0, any real (here: one of ParamVals) otherwise.
ParamVals == {R(0), R(1)}

SampleParams(sample_std, mean_) ==
    {p \in [1..Len(mean_) -> ParamVals \cup {mean_[i] : i \in 1..Len(mean_)}] :
        \A i \in 1..Len(mean_) :
            IF Square(sample_std[i]) = R(0) THEN p[i] = mean_[i]
            ELSE p[i] \in ParamVals}

\* garage.sampler.utils.rollout: the reward sequences one episode of env can give,
\* cut at max_path_length.
rollout(env, max_path_length) ==
    {SubSeq(r, 1, Min(Len(r), max_path_length)) : r \in env}

IdleTask == [pc |-> "idle", params |-> << >>, paths |-> << >>, ret |-> << >>, started |-> 0]

\* Mutant of InstallSampled: the mean is installed, not the sampled vector.
InstallMean(w, params) == [g EXCEPT ![w].policy = args.cur_mean]

\* Lines 31-37: sample a parameter vector and install it into the worker's policy.
InstallSampled(w, params) == [g EXCEPT ![w].policy = params]

WorkerStart(w) ==
    /\ task[w].pc = "call"
    /\ \E params \in SampleParams(args.sample_std, args.cur_mean) :
        /\ g' = InstallSampled(w, params)
        /\ task' = [task EXCEPT ![w].params = params, ![w].paths = << >>,
                                ![w].pc = "rollout"]
    /\ UNCHANGED << self, n_parallel, args, threshold, trainVars, poolVars,
                    run2Vars, estVars >>

\* Lines 38-44: one pass of the loop over range(n_evals).
WorkerRollout(w) ==
    /\ task[w].pc = "rollout"
    /\ Len(task[w].paths) < args.n_evals
    /\ \E rewards \in rollout(g[w].env, args.max_path_length) :
        LET path == [rewards |-> rewards,
                     returns |-> discount_cumsum(rewards, args.discount),
                     undiscounted_return |-> RSum(rewards),
                     ran_with |-> g[w].policy]
        IN  task' = [task EXCEPT ![w].paths = Append(@, path)]
    /\ UNCHANGED << self, n_parallel, args, threshold, g, trainVars, poolVars,
                    run2Vars, estVars >>

\* Lines 46-48.
ResultPath(paths) ==
    [full_paths |-> paths,
     undiscounted_return |->
        _get_stderr_lb([i \in 1..Len(paths) |-> paths[i].undiscounted_return]),
     returns |->
        _get_stderr_lb_varyinglens([i \in 1..Len(paths) |-> paths[i].returns])]

Criteria == {"samples", "paths"}

\* Mutant of WorkerInc: the two branches swapped.
WorkerIncSwapped(crit, paths) ==
    IF crit = "samples" THEN 1 ELSE Len(paths[Len(paths)].rewards)

\* Lines 52-55: the increment; path is the loop's last rollout.
WorkerInc(crit, paths) ==
    IF crit = "samples" THEN Len(paths[Len(paths)].rewards) ELSE 1

\* Lines 46-58: build the result; return it with the increment, or raise.
WorkerReturn(w) ==
    /\ task[w].pc = "rollout"
    /\ Len(task[w].paths) >= args.n_evals
    /\ LET result_path == ResultPath(task[w].paths)
       IN  IF args.criterion \in Criteria
           THEN task' = [task EXCEPT
                    ![w].pc = "ret",
                    ![w].ret = << [info |-> << task[w].params, result_path >>,
                                   inc |-> WorkerInc(args.criterion, task[w].paths)] >>]
           ELSE task' = [task EXCEPT ![w].pc = "raised"]
    /\ UNCHANGED << self, n_parallel, args, threshold, g, trainVars, poolVars,
                    run2Vars, estVars >>

----------------------------------------------------------------------------
(* stateful_pool.singleton_pool.run_collect: every worker calls the evaluator *)
(* until the shared counter of increments reaches the threshold; a call that  *)
(* was started is always awaited.                                             *)

\* A worker's loop head: stop once the counter has reached the threshold,
\* otherwise call the evaluator.
RunCollectCheck(w) ==
    /\ task[w].pc = "check"
    /\ task' = [task EXCEPT ![w].pc = IF counter >= threshold THEN "done" ELSE "call",
                            ![w].started = counter]
    /\ UNCHANGED << self, n_parallel, args, threshold, g, trainVars, poolVars,
                    run2Vars, estVars >>

\* A call has returned: collect its result and add its increment to the counter.
RunCollectAccount(w) ==
    /\ task[w].pc = "ret"
    /\ infos' = Append(infos, task[w].ret[1].info)
    /\ counter' = counter + task[w].ret[1].inc
    /\ incs' = Append(incs, [inc |-> task[w].ret[1].inc, started |-> task[w].started])
    /\ task' = [task EXCEPT ![w].pc = "check", ![w].ret = << >>]
    /\ UNCHANGED << self, n_parallel, args, threshold, g, trainVars, run2Vars, estVars >>

\* run_collect has returned: every worker has left its loop.
RunCollectDone == \A w \in Workers : task[w].pc = "done"

----------------------------------------------------------------------------
(* CEM.train. *)

\* Mutant of NBest: the floor of 1 is left out.
NBestUnclamped(n_samples, best_frac) == int(RMul(R(n_samples), best_frac))

\* Line 118.
NBest(n_samples, best_frac) == Max(1, int(RMul(R(n_samples), best_frac)))

\* Mutant of ExtraVarMult: the clamp at 0 is left out.
ExtraVarMultUnclamped(i, extra_decay_time) == RSub(R(1), Rat(i, extra_decay_time))

\* Line 122.
ExtraVarMult(i, extra_decay_time) ==
    RMax(RSub(R(1), Rat(i, extra_decay_time)), R(0))

\* Mutant of SampleStd: the extra variance does not decay.
SampleStdNoDecay(std, extra_std, i, extra_decay_time) ==
    [k \in 1..Len(std) |-> Sqrt(RAdd(Square(std[k]), Square(extra_std)))]

\* Lines 123-125, per coordinate.
SampleStd(std, extra_std, i, extra_decay_time) ==
    [k \in 1..Len(std) |->
        Sqrt(RAdd(Square(std[k]),
                  RMul(Square(extra_std), ExtraVarMult(i, extra_decay_time))))]

\* Lines 126-131.
Criterion(batch_size) == IF batch_size = << >> THEN "paths" ELSE "samples"

Threshold(batch_size, n_samples) ==
    IF batch_size = << >> THEN n_samples ELSE batch_size[1]

\* Lines 111-118.
TrainBegin ==
    /\ pc = "idle"
    /\ g' = [w \in Workers |-> [env |-> self.env, policy |-> policy]]
    /\ cur_std' = [k \in 1..Len(policy) |-> self.init_std]
    /\ cur_mean' = policy
    /\ n_best' = NBest(self.n_samples, self.best_frac)
    /\ run2' = [run2 EXCEPT !.cur_std = [k \in 1..Len(policy) |-> self.init_std],
                            !.cur_mean = policy,
                            !.n_best = NBest(n_samples2, self.best_frac)]
    /\ itr' = 0
    /\ pc' = "loop"
    /\ UNCHANGED << self, n_parallel, args, threshold, policy, best_inds, best_x,
                    events, poolVars, task, n_samples2, estVars >>

\* Mutant of InRange: the last iteration is left out.
InRangeShort(i, n_itr) == i < n_itr - 1

\* Line 120: whether range(n_itr) yields i.
InRange(i, n_itr) == i < n_itr

\* Lines 120-141: the loop head and the dispatch of one iteration.
IterDispatch ==
    /\ pc = "loop"
    /\ InRange(itr, self.n_itr)
    /\ args' = [cur_mean |-> cur_mean,
                sample_std |-> SampleStd(cur_std, self.extra_std, itr,
                                         self.extra_decay_time),
                max_path_length |-> self.max_path_length,
                discount |-> self.discount,
                criterion |-> Criterion(self.batch_size),
                n_evals |-> self.n_evals]
    /\ threshold' = Threshold(self.batch_size, self.n_samples)
    /\ infos' = << >>
    /\ counter' = 0
    /\ incs' = << >>
    /\ task' = [w \in Workers |-> [IdleTask EXCEPT !.pc = "check"]]
    /\ pc' = "collect"
    /\ UNCHANGED << self, n_parallel, itr, cur_mean, cur_std, n_best, policy,
                    best_inds, best_x, events, g, run2Vars, estVars >>

\* (-fs).argsort(): the orders (1-based positions) that sort fs descending; the
\* order among equal values is not fixed by the default sort kind.
Argsort(fs) ==
    {o \in [1..Len(fs) -> 1..Len(fs)] :
        /\ \A i, j \in 1..Len(fs) : i # j => o[i] # o[j]
        /\ \A i \in 1..Len(fs) - 1 : SLe(fs[o[i + 1]], fs[o[i]])}

\* Mutant of BestInds: the ranking read from its low end (the sort not negated).
BestIndsAscending(order, n) ==
    [i \in 1..Min(n, Len(order)) |-> order[Len(order) - i + 1] - 1]

\* order[:n], as 0-based indices.
BestInds(order, n) == [i \in 1..Min(n, Len(order)) |-> order[i] - 1]

\* xs[inds].
Take(xs, inds) == [i \in 1..Len(inds) |-> xs[inds[i] + 1]]

\* best_xs.mean(axis=0) and best_xs.std(axis=0).
MeanAxis0(best_xs) ==
    [k \in 1..Len(best_xs[1]) |-> mean([i \in 1..Len(best_xs) |-> best_xs[i][k]])]

StdAxis0(best_xs) ==
    [k \in 1..Len(best_xs[1]) |->
        Sqrt(var([i \in 1..Len(best_xs) |-> best_xs[i][k]], 0))]

\* Line 145.
Fitness(batch) == [i \in 1..Len(batch) |-> batch[i][2].returns[1]]

\* Lines 142-151 for a run that keeps nb survivors.
Update(batch, order, nb) ==
    LET xs == [i \in 1..Len(batch) |-> batch[i][1]]
        inds == BestInds(order, nb)
        best_xs == Take(xs, inds)
    IN  [best_inds |-> inds, cur_mean |-> MeanAxis0(best_xs),
         cur_std |-> StdAxis0(best_xs), best_x |-> best_xs[1]]

\* Lines 132-151: run_collect has returned; rank the batch and refit.
IterUpdate ==
    /\ pc = "collect"
    /\ RunCollectDone
    /\ \E order \in Argsort(Fitness(infos)) :
        LET u == Update(infos, order, n_best)
            u2 == Update(infos, order, run2.n_best)
        IN  /\ best_inds' = u.best_inds
            /\ cur_mean' = u.cur_mean
            /\ cur_std' = u.cur_std
            /\ best_x' = u.best_x
            /\ run2' = [run2 EXCEPT !.best_inds = u2.best_inds,
                                    !.cur_mean = u2.cur_mean,
                                    !.cur_std = u2.cur_std,
                                    !.best_x = u2.best_x]
    /\ events' = Append(events, << "update", itr >>)
    /\ pc' = "install"
    /\ UNCHANGED << self, n_parallel, itr, n_best, args, threshold, policy, g, task,
                    poolVars, n_samples2, estVars >>

\* Line 169.
IterInstall ==
    /\ pc = "install"
    /\ policy' = best_x
    /\ run2' = [run2 EXCEPT !.policy = run2.best_x]
    /\ events' = Append(events, << "install", itr >>)
    /\ pc' = "save"
    /\ UNCHANGED << self, n_parallel, itr, cur_mean, cur_std, n_best, args, threshold,
                    best_inds, best_x, g, task, poolVars, n_samples2, estVars >>

\* Lines 170-183: log, snapshotter.save_itr_params, and the loop's next pass.
IterSave ==
    /\ pc = "save"
    /\ events' = Append(events, << "save", itr >>)
    /\ itr' = itr + 1
    /\ pc' = "loop"
    /\ UNCHANGED << self, n_parallel, cur_mean, cur_std, n_best, args, threshold,
                    policy, best_inds, best_x, g, task, poolVars, run2Vars, estVars >>

\* Lines 184-185: the loop is over; terminate_task and plotter.close.
TrainEnd ==
    /\ pc = "loop"
    /\ ~InRange(itr, self.n_itr)
    /\ events' = Append(events, << "terminate", itr >>)
    /\ pc' = "terminated"
    /\ UNCHANGED << self, n_parallel, itr, cur_mean, cur_std, n_best, args, threshold,
                    policy, best_inds, best_x, g, task, poolVars, run2Vars, estVars >>

----------------------------------------------------------------------------
(* Initial states and specifications. *)

\* Environments: the reward sequences an episode can produce.
EnvShort == {<< R(1) >>, << R(3) >>, << R(4) >>}

EnvLong == {<< R(1) >>, << R(0), R(2), R(2) >>}

NoBatch == << >>

\* CEM.__init__ (max_path_length and discount fixed).
CEM(env, n_itr, n_samples, batch_size, best_frac, init_std, extra_std, decay, n_evals) ==
    [env |-> env, n_itr |-> n_itr, max_path_length |-> MaxLen,
     discount |-> Rat(1, 2), init_std |-> Std(init_std), n_samples |-> n_samples,
     batch_size |-> batch_size, best_frac |-> best_frac, extra_std |-> Std(extra_std),
     extra_decay_time |-> decay, n_evals |-> n_evals]

NoArgs == [cur_mean |-> << >>, sample_std |-> << >>, max_path_length |-> 0,
           discount |-> R(0), criterion |-> "", n_evals |-> 0]

NoRun == [n_best |-> 0, cur_mean |-> << >>, cur_std |-> << >>, policy |-> << >>,
          best_inds |-> << >>, best_x |-> << >>]

\* The state after CEM.__init__, before train is called.
InitTrain ==
    /\ pc = "idle"
    /\ itr = 0
    /\ cur_mean = << >>
    /\ cur_std = << >>
    /\ n_best = 0
    /\ args = NoArgs
    /\ threshold = 0
    /\ best_inds = << >>
    /\ best_x = << >>
    /\ infos = << >>
    /\ counter = 0
    /\ incs = << >>
    /\ g = [w \in Workers |-> [env |-> {}, policy |-> << >>]]
    /\ task = [w \in Workers |-> IdleTask]
    /\ events = << >>
    /\ run2 = [NoRun EXCEPT !.policy = policy]
    /\ est_x = << >>
    /\ est_out = << >>

\* A scenario: the CEM object, the policy's initial parameters, the pool's size.
Scenario(cem, params, workers) == [cem |-> cem, policy |-> params, n_parallel |-> workers]

\* The scenarios of Spec: one worker.  Dispatch by paths with the exploration
\* schedule varied; a four-sample batch, and a two-parameter policy; dispatch by
\* samples with episodes of different lengths; n_samples and best_frac varied
\* widely with no iteration.
Scenarios ==
    {Scenario(CEM(EnvShort, 0, ns, NoBatch, Rat(num, den), 1, 0, 1, 1), << R(0) >>, 1) :
        ns \in 1..5, num \in 1..3, den \in 3..5}
    \cup
    {Scenario(CEM(EnvShort, ni, ns, NoBatch, bf, is, es, t, 1), << R(0) >>, 1) :
        ni \in 0..MaxItr, ns \in 1..2, bf \in {Rat(1, 4), R(1)},
        is \in {0, 1}, es \in {0, 1}, t \in 1..2}
    \cup
    {Scenario(CEM(EnvShort, 1, 4, NoBatch, Rat(1, 2), 1, 0, 1, 1), << R(0) >>, 1),
     Scenario(CEM(EnvShort, 1, 2, NoBatch, Rat(1, 2), 1, 0, 1, 1), << R(0), R(1) >>, 1)}
    \cup
    {Scenario(CEM(EnvLong, 1, ns, << b >>, Rat(1, 2), 1, 0, 1, 1), << R(0) >>, 1) :
        ns \in {1, 4}, b \in 2..3}

InitFrom(scenarios) ==
    /\ \E s \in scenarios :
        /\ self = s.cem
        /\ policy = s.policy
        /\ n_parallel = s.n_parallel
    /\ InitTrain

Init ==
    /\ InitFrom(Scenarios)
    /\ n_samples2 = self.n_samples

Train == TrainBegin \/ IterDispatch \/ IterUpdate \/ IterInstall \/ IterSave \/ TrainEnd

Pool == \E w \in Workers : RunCollectCheck(w) \/ RunCollectAccount(w)

Evaluator == \E w \in Workers : WorkerStart(w) \/ WorkerRollout(w) \/ WorkerReturn(w)

Next == Train \/ Pool \/ Evaluator

Spec == Init /\ [][Next]_vars

\* Two workers (and one) over one iteration, dispatch by paths and by samples.
PoolScenarios ==
    {Scenario(CEM(EnvLong, 1, 2, NoBatch, R(1), 1, 0, 1, ne), << R(0) >>, np) :
        ne \in 1..2, np \in 1..2}
    \cup
    {Scenario(CEM(EnvLong, 1, 2, << 2 >>, R(1), 1, 0, 1, 1), << R(0) >>, np) :
        np \in 1..2}

InitPool ==
    /\ InitFrom(PoolScenarios)
    /\ n_samples2 = self.n_samples

SpecPool == InitPool /\ [][Next]_vars

\* Two runs of train that differ only in n_samples, with batch_size set.
PairScenarios ==
    {Scenario(CEM(EnvLong, ni, ns, << b >>, Rat(1, 2), 1, 0, 1, 1), << R(0) >>, 1) :
        ni \in 1..MaxItr, ns \in {2, 4}, b \in 2..3}

InitPair ==
    /\ InitFrom(PairScenarios)
    /\ n_samples2 \in {2, 4}

SpecPair == InitPair /\ [][Next]_vars

\* A direct call of the evaluator by one worker, with any criterion tag.
EvalArgs ==
    {[cur_mean |-> << R(0) >>, sample_std |-> << Std(s) >>, max_path_length |-> MaxLen,
      discount |-> Rat(1, 2), criterion |-> c, n_evals |-> ne] :
        s \in {0, 1}, c \in Criteria \cup {"frames"}, ne \in 1..2}

InitEval ==
    /\ pc = "direct"
    /\ self = << >>
    /\ n_parallel = 1
    /\ policy = << R(3) >>
    /\ args \in EvalArgs
    /\ g = [w \in Workers |-> [env |-> EnvLong, policy |-> policy]]
    /\ task = [w \in Workers |-> [IdleTask EXCEPT !.pc = "call"]]
    /\ itr = 0 /\ cur_mean = << >> /\ cur_std = << >> /\ n_best = 0 /\ threshold = 0
    /\ best_inds = << >> /\ best_x = << >> /\ infos = << >> /\ counter = 0
    /\ incs = << >> /\ events = << >> /\ n_samples2 = 0 /\ run2 = NoRun
    /\ est_x = << >> /\ est_out = << >>

SpecEval == InitEval /\ [][Evaluator]_vars

\* A direct call of _get_stderr_lb_varyinglens on a batch of return sequences.
EstSeqs == UNION {[1..l -> {R(0), R(2)}] : l \in 1..MaxLen + 1}

EstBatches == UNION {[1..m -> EstSeqs] : m \in 1..3}

InitEst ==
    /\ pc = "estimate"
    /\ self = << >>
    /\ n_parallel = 1
    /\ policy = << >>
    /\ args = NoArgs
    /\ g = [w \in Workers |-> [env |-> {}, policy |-> << >>]]
    /\ task = [w \in Workers |-> IdleTask]
    /\ itr = 0 /\ cur_mean = << >> /\ cur_std = << >> /\ n_best = 0 /\ threshold = 0
    /\ best_inds = << >> /\ best_x = << >> /\ infos = << >> /\ counter = 0
    /\ incs = << >> /\ events = << >> /\ n_samples2 = 0 /\ run2 = NoRun
    /\ est_x \in EstBatches
    /\ est_out = << >>

Estimate ==
    /\ pc = "estimate"
    /\ est_out = << >>
    /\ est_out' = _get_stderr_lb_varyinglens(est_x)
    /\ UNCHANGED << self, n_parallel, args, threshold, g, task, trainVars, poolVars,
                    run2Vars, est_x >>

SpecEst == InitEst /\ [][Estimate]_vars

----------------------------------------------------------------------------
(* Properties. *)

REq(a, b) == a.n * b.d = b.n * a.d

SEq(a, b) == ~SLt(a, b) /\ ~SLt(b, a)

\* The batch's parameter vectors and fitness values, read off infos.
BatchXs == [i \in 1..Len(infos) |-> infos[i][1]]

BatchFs == [i \in 1..Len(infos) |-> infos[i][2].returns[1]]

\* The survivors as 1-based positions of the batch.
Survivors == {best_inds[i] + 1 : i \in 1..Len(best_inds)}

Updated == pc \in {"install", "save"}

\* C1: after the update of an iteration the survivors are the top n_best samples of
\* the batch by returns[0], descending (all of them when the batch has fewer than
\* n_best); cur_mean is their elementwise mean, cur_std their elementwise population
\* standard deviation; the vector installed into the policy is the single
\* highest-fitness sample.  With fitness [3, 1, 4, 1] and n_best = 2 the survivors
\* are the samples at indices 2 and 0 and the installed vector is sample 2.
C1_DistributionUpdate ==
    Updated =>
        LET n == Len(infos)
            k == Len(best_inds)
            col(d) == [i \in 1..k |-> BatchXs[best_inds[i] + 1][d]]
            sqdev(d) == [i \in 1..k |->
                RMul(RSub(col(d)[i], cur_mean[d]), RSub(col(d)[i], cur_mean[d]))]
        IN  /\ k = Min(n_best, n)
            /\ k >= 1
            /\ \A i \in 1..k : best_inds[i] \in 0..n - 1
            /\ Cardinality(Survivors) = k
            /\ \A i \in 1..k - 1 :
                SLe(BatchFs[best_inds[i + 1] + 1], BatchFs[best_inds[i] + 1])
            /\ \A a \in Survivors : \A b \in (1..n) \ Survivors :
                SLe(BatchFs[b], BatchFs[a])
            /\ \A d \in 1..Len(cur_mean) :
                /\ REq(RMul(cur_mean[d], R(k)), RSum(col(d)))
                /\ REq(RMul(Square(cur_std[d]), R(k)), RSum(sqdev(d)))
            /\ Len(cur_mean) = Len(BatchXs[1])
            /\ Len(cur_std) = Len(BatchXs[1])
            /\ best_x = BatchXs[best_inds[1] + 1]
            /\ \A b \in 1..n : SLe(BatchFs[b], BatchFs[best_inds[1] + 1])
            /\ (pc = "save" => policy = best_x)
            /\ (/\ n = 4 /\ n_best = 2
                /\ BatchFs = << Score(R(3), R(0)), Score(R(1), R(0)),
                                Score(R(4), R(0)), Score(R(1), R(0)) >>)
               => best_inds = << 2, 0 >> /\ best_x = BatchXs[3]

\* The four-sample scenario of C1 has been installed, and the installed vector is
\* not the mean.
C1_Witness ==
    /\ pc = "save"
    /\ n_best = 2
    /\ BatchFs = << Score(R(3), R(0)), Score(R(1), R(0)),
                    Score(R(4), R(0)), Score(R(1), R(0)) >>
    /\ best_inds = << 2, 0 >>
    /\ policy = BatchXs[3]
    /\ policy # cur_mean
    /\ cur_std[1] # Sqrt(R(0))

\* The steps train takes through n iterations, then the termination.
RECURSIVE IterEvents(_)
IterEvents(n) ==
    IF n = 0 THEN << >>
    ELSE IterEvents(n - 1)
         \o << << "update", n - 1 >>, << "install", n - 1 >>, << "save", n - 1 >> >>

ExpectedEvents(n) == IterEvents(n) \o << << "terminate", n >> >>

IsPrefix(a, b) == Len(a) <= Len(b) /\ a = SubSeq(b, 1, Len(a))

\* A variant of train: the steps still to take, counted generously.  A worker's
\* rank is the number of steps left in its current pass of the pool's loop; every
\* unit of the counter still missing pays for one more pass.
WorkerRank(w) ==
    CASE task[w].pc = "check" ->
            IF counter < threshold THEN 5 + self.n_evals ELSE 1
      [] task[w].pc = "call" -> 4 + self.n_evals
      [] task[w].pc = "rollout" -> 3 + self.n_evals - Len(task[w].paths)
      [] task[w].pc = "ret" -> 2
      [] OTHER -> 0

PoolVariant ==
    ISum([w \in Workers |-> WorkerRank(w)])
    + Max(threshold - counter, 0) * (6 + self.n_evals)

IterationWeight ==
    n_parallel * (5 + self.n_evals)
    + Threshold(self.batch_size, self.n_samples) * (6 + self.n_evals) + 5

Variant ==
    CASE pc = "idle" -> (self.n_itr + 1) * IterationWeight
      [] pc = "loop" -> Max(self.n_itr - itr, 0) * IterationWeight + IterationWeight - 1
      [] pc = "collect" -> (self.n_itr - itr) * IterationWeight + 3 + PoolVariant
      [] pc = "install" -> (self.n_itr - itr) * IterationWeight + 2
      [] pc = "save" -> (self.n_itr - itr) * IterationWeight + 1
      [] OTHER -> 0

\* Some step of train, of the pool or of a worker can be taken.
CanStep ==
    \/ pc \in {"idle", "loop", "install", "save"}
    \/ /\ pc = "collect"
       /\ \/ RunCollectDone /\ Argsort(Fitness(infos)) # {}
          \/ \E w \in Workers :
                \/ task[w].pc \in {"check", "ret"}
                \/ /\ task[w].pc = "call"
                   /\ SampleParams(args.sample_std, args.cur_mean) # {}
                \/ /\ task[w].pc = "rollout"
                   /\ \/ Len(task[w].paths) >= args.n_evals
                      \/ rollout(g[w].env, args.max_path_length) # {}

\* C3: train runs the iterations itr = 0, 1, ..., n_itr - 1 in that order, with
\* exactly one update, one install and one save in each, whatever the returns and
\* the distribution are, and then terminates (the last step is terminate_task and
\* plotter.close).  With every dispatched call completing it does terminate: no
\* state short of termination is stuck, and every step lowers the variant.
C3_StateMachine ==
    /\ [](/\ IsPrefix(events, ExpectedEvents(self.n_itr))
          /\ (pc = "terminated" <=> events = ExpectedEvents(self.n_itr))
          /\ (pc \in {"collect", "install", "save"} => itr \in 0..self.n_itr - 1)
          /\ (pc = "terminated" \/ CanStep)
          /\ Variant >= 0)
    /\ [][Variant' < Variant]_vars

\* train has terminated after the largest number of iterations.
C3_Witness ==
    /\ pc = "terminated"
    /\ self.n_itr = MaxItr
    /\ Len(events) = 3 * MaxItr + 1

\* C4: n_best = max(1, floor(n_samples * best_frac)) >= 1, also when the product
\* is below 1, and every update selects at least one survivor.
C4_NBestAtLeastOne ==
    pc # "idle" =>
        /\ n_best >= 1
        /\ \E k \in 0..self.n_samples :
            /\ k * self.best_frac.d <= self.n_samples * self.best_frac.n
            /\ self.n_samples * self.best_frac.n < (k + 1) * self.best_frac.d
            /\ n_best = IF k >= 1 THEN k ELSE 1
        /\ (Updated => Len(best_inds) >= 1)

\* An update with n_samples * best_frac below 1 has selected one survivor.
C4_Witness ==
    /\ pc = "save"
    /\ self.n_samples * self.best_frac.n < self.best_frac.d
    /\ n_best = 1
    /\ Len(best_inds) = 1

\* The extra variance of iteration i, from its definition.
ExtraVar(i) ==
    IF i >= self.extra_decay_time THEN R(0)
    ELSE RMul(Square(self.extra_std),
              Rat(self.extra_decay_time - i, self.extra_decay_time))

\* C5: for extra_decay_time > 0 the extra variance added at iteration itr is
\* extra_std^2 * max(1 - itr / extra_decay_time, 0): non-negative, non-increasing
\* in itr, 0 from itr = extra_decay_time on; the evaluator's sampling std is
\* sqrt(cur_std^2 + extra variance), so it is cur_std from then on.
C5_ExplorationSchedule ==
    (pc = "collect" /\ self.extra_decay_time > 0) =>
        /\ \A k \in 1..Len(cur_std) :
            /\ REq(Square(args.sample_std[k]), RAdd(Square(cur_std[k]), ExtraVar(itr)))
            /\ RLe(Square(cur_std[k]), Square(args.sample_std[k]))
        /\ Len(args.sample_std) = Len(cur_std)
        /\ \A i \in 0..self.n_itr - 1 :
            LET extra(j) == RMul(Square(self.extra_std),
                                 ExtraVarMult(j, self.extra_decay_time))
            IN  /\ RLe(R(0), extra(i))
                /\ extra(i) = ExtraVar(i)
                /\ (i >= 1 => RLe(extra(i), extra(i - 1)))
                /\ (i >= self.extra_decay_time => extra(i) = R(0))
        /\ (itr >= self.extra_decay_time => args.sample_std = cur_std)

\* An iteration past extra_decay_time samples with cur_std, which is not 0.
C5_Witness ==
    /\ pc = "collect"
    /\ itr >= self.extra_decay_time
    /\ self.extra_std # Std(0)
    /\ args.sample_std = cur_std
    /\ cur_std[1] # Sqrt(R(0))

ZeroStd == cur_std # << >> /\ \A k \in 1..Len(cur_std) : cur_std[k] = Sqrt(R(0))

NoExtra == self.extra_std = Std(0) \/ itr >= self.extra_decay_time

\* The distribution has collapsed: zero std and no extra variance from now on.
Collapsed ==
    /\ pc \in {"loop", "collect", "install", "save", "terminated"}
    /\ ZeroStd
    /\ NoExtra

\* C10: once cur_std is the zero vector at an iteration with itr >= extra_decay_time
\* (or with extra_std = 0), every vector sampled in the iteration equals cur_mean,
\* no call raises, the update leaves cur_mean and cur_std as they are, the vector
\* installed equals cur_mean, and this stays so in every later step.
C10_CollapseAbsorbing ==
    /\ []((pc = "collect" /\ ZeroStd /\ NoExtra) =>
            /\ \A i \in 1..Len(infos) : infos[i][1] = cur_mean
            /\ \A w \in Workers :
                /\ task[w].params \in {<< >>, cur_mean}
                /\ task[w].pc # "raised")
    /\ [][Collapsed =>
            /\ Collapsed'
            /\ cur_mean' = cur_mean
            /\ cur_std' = cur_std
            /\ (pc = "install" => policy' = cur_mean)
            /\ (policy' # policy => policy' = cur_mean)]_vars

\* A collapse that came from an update with one survivor: the next iteration's
\* batch of two is all cur_mean, and cur_mean has been installed.
C10_Witness ==
    /\ pc = "save"
    /\ itr = 1
    /\ self.init_std # Std(0)
    /\ self.extra_std # Std(0)
    /\ Collapsed
    /\ Len(infos) = 2
    /\ \A i \in 1..Len(infos) : infos[i][1] = cur_mean
    /\ policy = cur_mean
    /\ cur_mean # << R(0) >>

\* run_collect has returned, and its batch has not yet been replaced.
PoolReturned == pc \in {"install", "save"} \/ (pc = "collect" /\ RunCollectDone)

IncsOf(h) == [i \in 1..Len(h) |-> h[i].inc]

C7_TaskIsolation ==
    /\ \A w \in Workers :
        /\ \A j \in 1..Len(task[w].paths) : task[w].paths[j].ran_with = task[w].params
        /\ (task[w].pc = "rollout" => g[w].policy = task[w].params)
    /\ \A i \in 1..Len(infos) :
        /\ Len(infos[i][2].full_paths) = args.n_evals
        /\ \A j \in 1..Len(infos[i][2].full_paths) :
            infos[i][2].full_paths[j].ran_with = infos[i][1]

\* Two tasks run concurrently with different sampled vectors, each part-way
\* through its rollouts.
C7_Witness ==
    /\ n_parallel = 2
    /\ args.n_evals = 2
    /\ \A w \in Workers : task[w].pc = "rollout" /\ Len(task[w].paths) = 1
    /\ task[1].params # task[2].params
    /\ task[1].paths[1].ran_with # task[2].paths[1].ran_with

\* C8: with batch_size set, a second run that differs only in n_samples, fed the
\* same sampled vectors and rollout results, has the same survivors, the same
\* (cur_mean, cur_std) and the same installed vector.
C8_NSamplesIgnored ==
    self.batch_size # NoBatch =>
        /\ run2.best_inds = best_inds
        /\ run2.cur_mean = cur_mean
        /\ run2.cur_std = cur_std
        /\ run2.policy = policy

\* C6: a call whose criterion is neither 'paths' nor 'samples' raises, returns no
\* pair and no increment, and has by then run no rollout and installed no sampled
\* vector into the policy.
C6_FailsBeforeWork ==
    \A w \in Workers :
        /\ args.criterion \notin {"paths", "samples"} =>
                task[w].pc # "ret" /\ task[w].ret = << >>
        /\ task[w].pc = "raised" =>
            /\ args.criterion \notin {"paths", "samples"}
            /\ task[w].paths = << >>
            /\ g[w].policy = policy

\* The values at (1-based) index t of the sequences of x that reach it, in order.
RECURSIVE Reaching(_, _)
Reaching(x, t) ==
    IF x = << >> THEN << >>
    ELSE (IF Len(Head(x)) >= t THEN << Head(x)[t] >> ELSE << >>)
         \o Reaching(Tail(x), t)

\* C9: the output of _get_stderr_lb_varyinglens is as long as the longest input
\* sequence; at each index the statistic is over the n_t sequences that reach the
\* index and no others; n_t >= 1 and non-increasing; where n_t = 1 the output is
\* the single contributing value.
C9_VaryingLens ==
    est_out # << >> =>
        LET st == VaryingStats(est_x)
        IN  /\ \A i \in 1..Len(est_x) : Len(est_x[i]) <= Len(est_out)
            /\ \E i \in 1..Len(est_x) : Len(est_x[i]) = Len(est_out)
            /\ \A t \in 1..Len(est_out) :
                LET v == Reaching(est_x, t)
                    n == Len(v)
                    sq == [i \in 1..n |->
                            RMul(RSub(v[i], est_out[t].m), RSub(v[i], est_out[t].m))]
                IN  /\ st[t].n = n
                    /\ n >= 1
                    /\ (t > 1 => n <= st[t - 1].n)
                    /\ REq(RMul(est_out[t].m, R(n)), RSum(v))
                    /\ (n > 1 => REq(RMul(est_out[t].q, R(n * (n - 1))), RSum(sq)))
                    /\ (n = 1 => est_out[t] = Score(v[1], R(0)))

\* A batch of three whose longest sequence alone reaches the last index, with a
\* value there that padding with 0 would change.
C9_Witness ==
    /\ est_out # << >>
    /\ Len(est_x) = 3
    /\ Len(Reaching(est_x, Len(est_out))) = 1
    /\ Len(Reaching(est_x, 1)) = 3
    /\ est_out[Len(est_out)] = Score(R(2), R(0))
    /\ est_out[1].q # R(0)

====
